---- MODULE Spec2Model ----
(***************************************************************************)
(* Model of web3/_utils/module_testing/module_testing_utils.py:            *)
(*   - mock_offchain_lookup_request_response (sync interceptor)            *)
(*   - async_mock_offchain_lookup_request_response (async interceptor)     *)
(*   - WebSocketMessageStreamMock                                          *)
(*   - assert_contains_log                                                 *)
(* Text is modelled as sequences of one-character strings wherever the     *)
(* code transforms it (upper(), lower(), address normalisation, HexBytes). *)
(***************************************************************************)
EXTENDS Integers, Sequences, FiniteSets, TLC

VARIABLES
    \* ---- request interceptors ----
    variant,        \* "sync" or "async": which installer was called
    cfg,            \* the installer's arguments, captured by the closures
    installed,      \* the attribute monkeypatch.setattr replaced
    pc,             \* position of the (async) _mock_specific_request coroutine
    cur,            \* arguments of the call that is suspended at an await
    factoryLog,     \* urls handed to (async_)cache_and_return_session, in order
    requestLog,     \* session.request(method=, url=, **kwargs) calls, in order
    realLog,        \* what the real session.request returned or raised, in order
    last,           \* the last completed interceptor call and its outcome
    nForwarded,     \* completed calls that took the "normal request" path
    heldResp,       \* the last synthetic response object handed to the caller
    respOut,        \* outcome of the last json() / raise_for_status() call
    nCalls,         \* interceptor calls started so far
    nRespOps,       \* json() / raise_for_status() calls made so far
    \* ---- WebSocketMessageStreamMock ----
    messages,       \* self.messages (deque)
    raise_exception,\* self.raise_exception
    closed,         \* WebSocketMessageStreamMock.closed
    initMessages,   \* the messages argument of __init__
    initException,  \* the raise_exception argument of __init__
    delivered,      \* values returned by __anext__, in order
    trace,          \* every stream operation performed and its outcome
    \* ---- assert_contains_log ----
    result,         \* argument: Sequence[LogReceipt]
    block_with_txn_with_log,
    emitter_contract_address,
    txn_hash_with_log,
    args0,          \* the arguments as they were when the function was called
    verdict         \* "not_called", "pass" or "AssertionError"

httpVars == <<variant, cfg, installed, pc, cur, factoryLog, requestLog, realLog,
              last, nForwarded, heldResp, respOut, nCalls, nRespOps>>
streamVars == <<messages, raise_exception, closed, initMessages, initException,
                delivered, trace>>
logVars == <<result, block_with_txn_with_log, emitter_contract_address,
             txn_hash_with_log, args0, verdict>>
vars == <<httpVars, streamVars, logVars>>

None == "None"

\* ------------------------------------------------------------------------
\* Text helpers
\* ------------------------------------------------------------------------

\* str.upper() on one character (the letters and digits the model uses)
UpperChar(c) ==
    CASE c = "a" -> "A" [] c = "b" -> "B" [] c = "c" -> "C" [] c = "d" -> "D"
      [] c = "e" -> "E" [] c = "f" -> "F" [] c = "g" -> "G" [] c = "o" -> "O"
      [] c = "p" -> "P" [] c = "s" -> "S" [] c = "t" -> "T" [] c = "x" -> "X"
      [] OTHER -> c

\* str.lower() on one character
LowerChar(c) ==
    CASE c = "A" -> "a" [] c = "B" -> "b" [] c = "C" -> "c" [] c = "D" -> "d"
      [] c = "E" -> "e" [] c = "F" -> "f" [] c = "G" -> "g" [] c = "O" -> "o"
      [] c = "P" -> "p" [] c = "S" -> "s" [] c = "T" -> "t" [] c = "X" -> "x"
      [] OTHER -> c

Upper(s) == [i \in DOMAIN s |-> UpperChar(s[i])]
Lower(s) == [i \in DOMAIN s |-> LowerChar(s[i])]

\* ------------------------------------------------------------------------
\* Request interceptors: values
\* ------------------------------------------------------------------------

MaxCalls == 2            \* interceptor calls explored per behaviour
MaxRespOps == 2          \* json() / raise_for_status() calls explored

ExpectedTimeout == 10    \* the literal of `kwargs["timeout"] == 10`
DefaultStatusCode == 200 \* mocked_status_code: int = 200

GET == <<"G", "E", "T">>
POST == <<"P", "O", "S", "T">>
post == <<"p", "o", "s", "t">>

\* http_method arguments (the installers accept any casing: they call
\* upper() and lower() on it)
Methods == {GET, <<"g", "e", "t">>, POST, post}

MockedUrl == "https://gateway.test/{sender}/{data}.json"
OtherUrl == "https://other.test/rpc"
Urls == {MockedUrl, OtherUrl}

\* (mocked_status_code, mocked_json_data, json_data_field); the first is the
\* triple of defaults
ResponseConfigs ==
    { [mocked_status_code |-> DefaultStatusCode, mocked_json_data |-> "0x",
       json_data_field |-> "data"],
      [mocked_status_code |-> 404, mocked_json_data |-> "0xdeadbeef",
       json_data_field |-> "data"],
      [mocked_status_code |-> DefaultStatusCode, mocked_json_data |-> "0xaabb",
       json_data_field |-> "result"] }

\* (sender, calldata)
PostConfigs == { [sender |-> "0xsender", calldata |-> "0xcalldata"] }

Configs ==
    { [http_method |-> m, mocked_request_url |-> MockedUrl,
       mocked_status_code |-> rc.mocked_status_code,
       mocked_json_data |-> rc.mocked_json_data,
       json_data_field |-> rc.json_data_field,
       sender |-> pcfg.sender, calldata |-> pcfg.calldata]
      : m \in Methods, rc \in ResponseConfigs, pcfg \in PostConfigs }

\* timeout=10 (requests) and timeout=ClientTimeout(10) (aiohttp)
IntTimeout(n) == [type |-> "int", total |-> n]
ClientTimeout(n) == [type |-> "ClientTimeout", total |-> n]
\* timeout= values passed to requests and to aiohttp
Timeouts(v) ==
    IF v = "sync"
    THEN {IntTimeout(ExpectedTimeout), IntTimeout(30)}
    ELSE {ClientTimeout(ExpectedTimeout), ClientTimeout(30),
          IntTimeout(ExpectedTimeout)}

\* data= option values: the expected body and one that differs from it
DataValues == { [data |-> "0xcalldata", sender |-> "0xsender"],
                [data |-> "0xbad", sender |-> "0xsender"] }

\* **kwargs of a call on the patched Session.get / Session.post: the callers
\* always pass timeout=, and pass data= on post (data= is optional on get)
AllKwargs(v) ==
    { ("timeout" :> t) : t \in Timeouts(v) }
    \cup { ("timeout" :> t) @@ ("data" :> d) : t \in Timeouts(v), d \in DataValues }

CallKwargs(v, c) ==
    IF Upper(c.http_method) = POST
    THEN { kw \in AllKwargs(v) : "data" \in DOMAIN kw }
    ELSE AllKwargs(v)

Return(v) == [kind |-> "return", value |-> v]
Raise(e) == [kind |-> "raise", value |-> e]
NoOutcome == [kind |-> "none", value |-> [cls |-> None]]

AssertionError == [cls |-> "AssertionError"]
KeyError(k) == [cls |-> "KeyError", key |-> k]

\* what the real session.request may do: answer or raise
RealResults(v) ==
    IF v = "sync"
    THEN { Return([cls |-> "Response", status_code |-> 200]),
           Raise([cls |-> "ConnectionError"]) }
    ELSE { Return([cls |-> "ClientResponse", status |-> 200]),
           Raise([cls |-> "ClientConnectionError"]) }

\* ------------------------------------------------------------------------
\* Request interceptors: the closures
\* ------------------------------------------------------------------------

\* class MockedResponse: status_code = mocked_status_code
MockedResponse == [cls |-> "MockedResponse", status_code |-> cfg.mocked_status_code]

\* class AsyncMockedResponse: status = mocked_status_code
AsyncMockedResponse == [cls |-> "AsyncMockedResponse", status |-> cfg.mocked_status_code]

IsSynthetic(r) == r.cls \in {"MockedResponse", "AsyncMockedResponse"}

\* variant: the key is the literal "data", not json_data_field
Json_LiteralKey(r) == ("data" :> cfg.mocked_json_data)

\* (Async)MockedResponse.json(): a new one-entry dict on every call
Json(r) == (cfg.json_data_field :> cfg.mocked_json_data)

\* (Async)MockedResponse.raise_for_status()
RaiseForStatus(r) ==
    Raise([cls |-> "Exception", msg |-> "called raise_for_status()"])

\* variant: the receiver args[0] is compared instead of the url args[1]
IsMockedUrl_Receiver(url_from_args) == "self" = cfg.mocked_request_url

\* `if url_from_args == mocked_request_url:`
IsMockedUrl(url_from_args) == url_from_args = cfg.mocked_request_url

\* variant: the timeout assertion is missing
SyncMockedBranch_NoTimeoutCheck(kwargs) ==
    IF Upper(cfg.http_method) = POST
    THEN IF "data" \notin DOMAIN kwargs THEN Raise(KeyError("data"))
         ELSE IF kwargs["data"] # [data |-> cfg.calldata, sender |-> cfg.sender]
              THEN Raise(AssertionError)
              ELSE Return(MockedResponse)
    ELSE Return(MockedResponse)

\* variant: http_method is compared with "POST" without upper()
SyncMockedBranch_CaseSensitive(kwargs) ==
    IF "timeout" \notin DOMAIN kwargs THEN Raise(KeyError("timeout"))
    ELSE IF kwargs["timeout"] # IntTimeout(ExpectedTimeout) THEN Raise(AssertionError)
    ELSE IF cfg.http_method = POST
    THEN IF "data" \notin DOMAIN kwargs THEN Raise(KeyError("data"))
         ELSE IF kwargs["data"] # [data |-> cfg.calldata, sender |-> cfg.sender]
              THEN Raise(AssertionError)
              ELSE Return(MockedResponse)
    ELSE Return(MockedResponse)

\* the body of the sync `if url_from_args == mocked_request_url:` branch
SyncMockedBranch(kwargs) ==
    IF "timeout" \notin DOMAIN kwargs THEN Raise(KeyError("timeout"))
    ELSE IF kwargs["timeout"] # IntTimeout(ExpectedTimeout) THEN Raise(AssertionError)
    ELSE IF Upper(cfg.http_method) = POST
    THEN IF "data" \notin DOMAIN kwargs THEN Raise(KeyError("data"))
         ELSE IF kwargs["data"] # [data |-> cfg.calldata, sender |-> cfg.sender]
              THEN Raise(AssertionError)
              ELSE Return(MockedResponse)
    ELSE Return(MockedResponse)

\* the body of the async `if url_from_args == mocked_request_url:` branch;
\* the method is upper-cased and then compared with the lower-case "post"
AsyncMockedBranch(kwargs) ==
    IF "timeout" \notin DOMAIN kwargs THEN Raise(KeyError("timeout"))
    ELSE IF kwargs["timeout"] # ClientTimeout(ExpectedTimeout) THEN Raise(AssertionError)
    ELSE IF Upper(cfg.http_method) = post
    THEN IF "data" \notin DOMAIN kwargs THEN Raise(KeyError("data"))
         ELSE IF kwargs["data"] # [data |-> cfg.calldata, sender |-> cfg.sender]
              THEN Raise(AssertionError)
              ELSE Return(AsyncMockedResponse)
    ELSE Return(AsyncMockedResponse)

\* variant: the method is forwarded as configured, without upper()
ForwardedRequest_NoUpper(url_from_args, kwargs) ==
    [method |-> cfg.http_method, url |-> url_from_args, kwargs |-> kwargs]

\* session.request(method=http_method.upper(), url=url_from_args, **kwargs)
ForwardedRequest(url_from_args, kwargs) ==
    [method |-> Upper(cfg.http_method), url |-> url_from_args, kwargs |-> kwargs]

Completed(url, kwargs, res) == [url |-> url, kwargs |-> kwargs, result |-> res]

Held(res) ==
    IF res.kind = "return" /\ IsSynthetic(res.value) THEN res.value ELSE heldResp

\* ------------------------------------------------------------------------
\* Request interceptors: state machine
\* ------------------------------------------------------------------------

InitHttp ==
    /\ variant \in {"sync", "async"}
    /\ cfg \in Configs
    /\ installed = [cls |-> IF variant = "sync" THEN "requests.Session"
                                               ELSE "aiohttp.ClientSession",
                    attr |-> Lower(cfg.http_method)]
    /\ pc = "idle"
    /\ cur = [url |-> None, kwargs |-> <<>>]
    /\ factoryLog = <<>>
    /\ requestLog = <<>>
    /\ realLog = <<>>
    /\ last = Completed(None, <<>>, NoOutcome)
    /\ nForwarded = 0
    /\ heldResp = [cls |-> None]
    /\ respOut = [op |-> None, kind |-> "none", value |-> [cls |-> None]]
    /\ nCalls = 0
    /\ nRespOps = 0

\* sync _mock_specific_request(*args, **kwargs); args = (self, url)
SyncMockSpecificRequest(args, kwargs, real) ==
    LET url_from_args == args[2] IN
    /\ variant = "sync"
    /\ pc = "idle"
    /\ nCalls < MaxCalls
    /\ nCalls' = nCalls + 1
    /\ IF IsMockedUrl(url_from_args)
       THEN /\ last' = Completed(url_from_args, kwargs, SyncMockedBranch(kwargs))
            /\ heldResp' = Held(SyncMockedBranch(kwargs))
            /\ UNCHANGED <<factoryLog, requestLog, realLog, nForwarded>>
       ELSE /\ factoryLog' = Append(factoryLog, url_from_args)
            /\ requestLog' = Append(requestLog, ForwardedRequest(url_from_args, kwargs))
            /\ realLog' = Append(realLog, real)
            /\ last' = Completed(url_from_args, kwargs, real)
            /\ nForwarded' = nForwarded + 1
            /\ UNCHANGED heldResp
    /\ UNCHANGED <<variant, cfg, installed, pc, cur, respOut, nRespOps>>

\* async _mock_specific_request, up to its first await (or to its end when
\* the url is the mocked one: that branch has no await)
AsyncMockSpecificRequest(args, kwargs) ==
    LET url_from_args == args[2] IN
    /\ variant = "async"
    /\ pc = "idle"
    /\ nCalls < MaxCalls
    /\ nCalls' = nCalls + 1
    /\ IF IsMockedUrl(url_from_args)
       THEN /\ last' = Completed(url_from_args, kwargs, AsyncMockedBranch(kwargs))
            /\ heldResp' = Held(AsyncMockedBranch(kwargs))
            /\ UNCHANGED <<factoryLog, pc, cur>>
       ELSE /\ factoryLog' = Append(factoryLog, url_from_args)
            /\ cur' = [url |-> url_from_args, kwargs |-> kwargs]
            /\ pc' = "await_session"
            /\ UNCHANGED <<last, heldResp>>
    /\ UNCHANGED <<variant, cfg, installed, requestLog, realLog, nForwarded,
                   respOut, nRespOps>>

\* `session = await async_cache_and_return_session(...)` resumes and
\* session.request(...) is called
AsyncSessionReady ==
    /\ pc = "await_session"
    /\ requestLog' = Append(requestLog, ForwardedRequest(cur.url, cur.kwargs))
    /\ pc' = "await_request"
    /\ UNCHANGED <<variant, cfg, installed, cur, factoryLog, realLog, last,
                   nForwarded, heldResp, respOut, nCalls, nRespOps>>

\* `return await session.request(...)` resumes with the session's outcome
AsyncRequestDone(real) ==
    /\ pc = "await_request"
    /\ realLog' = Append(realLog, real)
    /\ last' = Completed(cur.url, cur.kwargs, real)
    /\ nForwarded' = nForwarded + 1
    /\ pc' = "idle"
    /\ UNCHANGED <<variant, cfg, installed, cur, factoryLog, requestLog,
                   heldResp, respOut, nCalls, nRespOps>>

\* the caller calls json() on the synthetic response it holds
CallJson ==
    /\ IsSynthetic(heldResp)
    /\ nRespOps < MaxRespOps
    /\ nRespOps' = nRespOps + 1
    /\ respOut' = [op |-> "json", kind |-> "return", value |-> Json(heldResp)]
    /\ UNCHANGED <<variant, cfg, installed, pc, cur, factoryLog, requestLog,
                   realLog, last, nForwarded, heldResp, nCalls>>

\* the caller calls raise_for_status() on the synthetic response it holds
CallRaiseForStatus ==
    /\ IsSynthetic(heldResp)
    /\ nRespOps < MaxRespOps
    /\ nRespOps' = nRespOps + 1
    /\ respOut' = [op |-> "raise_for_status", kind |-> RaiseForStatus(heldResp).kind,
                   value |-> RaiseForStatus(heldResp).value]
    /\ UNCHANGED <<variant, cfg, installed, pc, cur, factoryLog, requestLog,
                   realLog, last, nForwarded, heldResp, nCalls>>

\* ------------------------------------------------------------------------
\* WebSocketMessageStreamMock
\* ------------------------------------------------------------------------

MaxMsgs == 2         \* longest messages argument explored
MaxStreamOps == 4    \* stream operations explored per behaviour

Bytes == {"a", "b"}            \* message payloads
SendData == {"a", "z"}         \* payloads passed to send()
Failures == {"ConnectionClosedOK"}

SeqsUpTo(S, n) == UNION { [1..k -> S] : k \in 0..n }

\* the messages argument: None, or a collection (possibly empty)
MessagesArgs ==
    { [none |-> TRUE, items |-> <<>>] }
    \cup { [none |-> FALSE, items |-> q] : q \in SeqsUpTo(Bytes, MaxMsgs) }

\* truth value of the messages argument in `if messages`
Truthy(arg) == ~arg.none /\ Len(arg.items) > 0

\* self.messages = deque(messages) if messages else deque()
InitialDeque(arg) == IF Truthy(arg) THEN arg.items ELSE <<>>

StopAsyncIteration == "StopAsyncIteration"

Self == [messages |-> messages, raise_exception |-> raise_exception,
         closed |-> closed]

\* variant: pop() instead of popleft()
Anext_PopRight(self) ==
    IF self.raise_exception # None
    THEN [out |-> Raise(self.raise_exception), self |-> self]
    ELSE IF Len(self.messages) = 0
    THEN [out |-> Raise(StopAsyncIteration), self |-> self]
    ELSE [out |-> Return(self.messages[Len(self.messages)]),
          self |-> [self EXCEPT !.messages =
                        SubSeq(self.messages, 1, Len(self.messages) - 1)]]

\* variant: the queue is served before the injected failure is looked at
Anext_QueueFirst(self) ==
    IF Len(self.messages) > 0
    THEN [out |-> Return(Head(self.messages)),
          self |-> [self EXCEPT !.messages = Tail(self.messages)]]
    ELSE IF self.raise_exception # None
    THEN [out |-> Raise(self.raise_exception), self |-> self]
    ELSE [out |-> Raise(StopAsyncIteration), self |-> self]

\* __anext__: the outcome and the object afterwards
Anext(self) ==
    IF self.raise_exception # None
    THEN [out |-> Raise(self.raise_exception), self |-> self]
    ELSE IF Len(self.messages) = 0
    THEN [out |-> Raise(StopAsyncIteration), self |-> self]
    ELSE [out |-> Return(Head(self.messages)),
          self |-> [self EXCEPT !.messages = Tail(self.messages)]]

\* send(data): pass
Send(self, data) == [out |-> Return(None), self |-> self]

\* variant: close() marks the connection closed
Close_SetsClosed(self) ==
    [out |-> Return(None), self |-> [self EXCEPT !.closed = TRUE]]

\* close(): pass
Close(self) == [out |-> Return(None), self |-> self]

InitStream ==
    /\ initMessages \in MessagesArgs
    /\ initException \in {None} \cup Failures
    /\ messages = InitialDeque(initMessages)
    /\ raise_exception = initException
    /\ closed = FALSE
    /\ delivered = <<>>
    /\ trace = <<>>

Apply(op, arg, r) ==
    /\ Len(trace) < MaxStreamOps
    /\ messages' = r.self.messages
    /\ raise_exception' = r.self.raise_exception
    /\ closed' = r.self.closed
    /\ trace' = Append(trace, [op |-> op, arg |-> arg, out |-> r.out])
    /\ delivered' = IF op = "__anext__" /\ r.out.kind = "return"
                    THEN Append(delivered, r.out.value) ELSE delivered
    /\ UNCHANGED <<initMessages, initException>>

DoAnext == Apply("__anext__", None, Anext(Self))
DoSend(data) == Apply("send", data, Send(Self, data))
DoClose == Apply("close", None, Close(Self))

\* ------------------------------------------------------------------------
\* assert_contains_log
\* ------------------------------------------------------------------------

MaxResultLen == 2    \* longest result sequence explored

HexVal(c) ==
    CASE c = "0" -> 0 [] c = "1" -> 1 [] c = "2" -> 2 [] c = "3" -> 3
      [] c = "4" -> 4 [] c = "5" -> 5 [] c = "6" -> 6 [] c = "7" -> 7
      [] c = "8" -> 8 [] c = "9" -> 9
      [] LowerChar(c) = "a" -> 10 [] LowerChar(c) = "b" -> 11
      [] LowerChar(c) = "c" -> 12 [] LowerChar(c) = "d" -> 13
      [] LowerChar(c) = "e" -> 14 [] LowerChar(c) = "f" -> 15

Has0xPrefix(s) == Len(s) >= 2 /\ s[1] = "0" /\ s[2] \in {"x", "X"}
Remove0xPrefix(s) == IF Has0xPrefix(s) THEN SubSeq(s, 3, Len(s)) ELSE s
Add0xPrefix(s) == IF Has0xPrefix(s) THEN s ELSE <<"0", "x">> \o s

\* HexBytes(hexstr): the bytes a hex string denotes (prefix optional, any
\* letter case, an odd number of digits is padded on the left)
HexBytes(hexstr) ==
    LET non_prefixed == Remove0xPrefix(hexstr)
        padded == IF Len(hexstr) % 2 = 1 THEN <<"0">> \o non_prefixed
                  ELSE non_prefixed
    IN [i \in 1..(Len(padded) \div 2) |->
            16 * HexVal(padded[2 * i - 1]) + HexVal(padded[2 * i])]

\* eth_utils.to_normalized_address: lower case, 0x-prefixed
to_normalized_address(a) == Add0xPrefix(Lower(a))

\* eth_utils.is_same_address, on valid addresses
is_same_address(left, right) ==
    to_normalized_address(left) = to_normalized_address(right)

\* Addresses and hashes are shortened to one byte (two hex digits); the
\* three spellings of the first address are its lower-case, checksummed
\* and upper-case forms.
Addresses == { <<"0", "x", "a", "b">>, <<"0", "x", "A", "b">>,
               <<"0", "x", "A", "B">>, <<"0", "x", "c", "d">> }
TxnHashStrs == { <<"0", "x", "a", "b">>, <<"0", "x", "A", "B">>,
                 <<"a", "b">>, <<"0", "x", "c", "d">> }
HashBytes == { <<171>>, <<205>> }
BlockNumbers == {10, 11}
Indexes == {0, 1}

LogReceipts ==
    [blockNumber : BlockNumbers, blockHash : HashBytes, logIndex : Indexes,
     address : Addresses,
     transactionIndex : Indexes, transactionHash : HashBytes]

\* result sequences: empty, one entry, or one entry repeated
Results == { [i \in 1..n |-> e] : e \in LogReceipts, n \in 0..MaxResultLen }

Blocks == { [number |-> 10, hash |-> <<171>>], [number |-> 11, hash |-> <<205>>] }

\* variant: the addresses are compared with ==, not with is_same_address
AssertContainsLog_RawAddress(res, block, emitter, txn_hash) ==
    IF Len(res) # 1 THEN "AssertionError"
    ELSE LET log_entry == res[1] IN
         IF log_entry.blockNumber # block.number THEN "AssertionError"
         ELSE IF log_entry.blockHash # block.hash THEN "AssertionError"
         ELSE IF log_entry.logIndex # 0 THEN "AssertionError"
         ELSE IF log_entry.address # emitter THEN "AssertionError"
         ELSE IF log_entry.transactionIndex # 0 THEN "AssertionError"
         ELSE IF log_entry.transactionHash # HexBytes(txn_hash) THEN "AssertionError"
         ELSE "pass"

\* assert_contains_log: "pass" when every assert holds, else the error the
\* first failing assert raises
AssertContainsLog(res, block, emitter, txn_hash) ==
    IF Len(res) # 1 THEN "AssertionError"
    ELSE LET log_entry == res[1] IN
         IF log_entry.blockNumber # block.number THEN "AssertionError"
         ELSE IF log_entry.blockHash # block.hash THEN "AssertionError"
         ELSE IF log_entry.logIndex # 0 THEN "AssertionError"
         ELSE IF ~is_same_address(log_entry.address, emitter) THEN "AssertionError"
         ELSE IF log_entry.transactionIndex # 0 THEN "AssertionError"
         ELSE IF log_entry.transactionHash # HexBytes(txn_hash) THEN "AssertionError"
         ELSE "pass"

InitLog ==
    /\ result \in Results
    /\ block_with_txn_with_log \in Blocks
    /\ emitter_contract_address \in Addresses
    /\ txn_hash_with_log \in TxnHashStrs
    /\ args0 = <<result, block_with_txn_with_log, emitter_contract_address,
                 txn_hash_with_log>>
    /\ verdict = "not_called"

CallAssertContainsLog ==
    /\ verdict = "not_called"
    /\ verdict' = AssertContainsLog(result, block_with_txn_with_log,
                                    emitter_contract_address, txn_hash_with_log)
    /\ UNCHANGED <<result, block_with_txn_with_log, emitter_contract_address,
                   txn_hash_with_log, args0>>

\* ------------------------------------------------------------------------
\* Specifications (the four components share no state)
\* ------------------------------------------------------------------------

IdleHttp ==
    /\ variant = "sync"
    /\ cfg = CHOOSE c \in Configs : TRUE
    /\ installed = [cls |-> None, attr |-> <<>>]
    /\ pc = "idle"
    /\ cur = [url |-> None, kwargs |-> <<>>]
    /\ factoryLog = <<>>
    /\ requestLog = <<>>
    /\ realLog = <<>>
    /\ last = Completed(None, <<>>, NoOutcome)
    /\ nForwarded = 0
    /\ heldResp = [cls |-> None]
    /\ respOut = [op |-> None, kind |-> "none", value |-> [cls |-> None]]
    /\ nCalls = 0
    /\ nRespOps = 0

IdleStream ==
    /\ initMessages = [none |-> TRUE, items |-> <<>>]
    /\ initException = None
    /\ messages = <<>>
    /\ raise_exception = None
    /\ closed = FALSE
    /\ delivered = <<>>
    /\ trace = <<>>

IdleLog ==
    /\ result = <<>>
    /\ block_with_txn_with_log = CHOOSE b \in Blocks : TRUE
    /\ emitter_contract_address = <<>>
    /\ txn_hash_with_log = <<>>
    /\ args0 = <<>>
    /\ verdict = "not_called"

HttpInit == InitHttp /\ IdleStream /\ IdleLog
HttpNext ==
    \/ \E u \in Urls, kw \in CallKwargs(variant, cfg), real \in RealResults(variant) :
          SyncMockSpecificRequest(<<"self", u>>, kw, real) /\ UNCHANGED <<streamVars, logVars>>
    \/ \E u \in Urls, kw \in CallKwargs(variant, cfg) :
          AsyncMockSpecificRequest(<<"self", u>>, kw) /\ UNCHANGED <<streamVars, logVars>>
    \/ AsyncSessionReady /\ UNCHANGED <<streamVars, logVars>>
    \/ \E real \in RealResults(variant) :
          AsyncRequestDone(real) /\ UNCHANGED <<streamVars, logVars>>
    \/ CallJson /\ UNCHANGED <<streamVars, logVars>>
    \/ CallRaiseForStatus /\ UNCHANGED <<streamVars, logVars>>
HttpSpec == HttpInit /\ [][HttpNext]_vars

StreamInit == IdleHttp /\ InitStream /\ IdleLog
StreamNext ==
    \/ DoAnext /\ UNCHANGED <<httpVars, logVars>>
    \/ \E d \in SendData : DoSend(d) /\ UNCHANGED <<httpVars, logVars>>
    \/ DoClose /\ UNCHANGED <<httpVars, logVars>>
StreamSpec == StreamInit /\ [][StreamNext]_vars

LogInit == IdleHttp /\ IdleStream /\ InitLog
LogNext == CallAssertContainsLog /\ UNCHANGED <<httpVars, streamVars>>
LogSpec == LogInit /\ [][LogNext]_vars

\* ------------------------------------------------------------------------
\* Properties of the request interceptors (HttpSpec)
\* ------------------------------------------------------------------------

\* the timeout each interceptor is documented to require
RequiredTimeout ==
    IF variant = "sync" THEN [type |-> "int", total |-> 10]
    ELSE [type |-> "ClientTimeout", total |-> 10]

ExpectedBody == [data |-> cfg.calldata, sender |-> cfg.sender]

Last(s) == s[Len(s)]

CallDone == last.url # None
OnTarget == CallDone /\ last.url = cfg.mocked_request_url
OffTarget == CallDone /\ last.url # cfg.mocked_request_url
ConfiguredPost == Lower(cfg.http_method) = post

SyntheticFor(v) ==
    IF v = "sync"
    THEN [cls |-> "MockedResponse", status_code |-> cfg.mocked_status_code]
    ELSE [cls |-> "AsyncMockedResponse", status |-> cfg.mocked_status_code]

\* C1 as stated: a call whose timeout option is not the required one fails
\* with an assertion error, whether or not its url is the mocked one.
C1_TimeoutCheckedOnEveryUrl ==
    (CallDone /\ last.kwargs["timeout"] # RequiredTimeout)
        => last.result = Raise(AssertionError)

\* C1 amended: a call on the mocked url whose timeout option is not the
\* required one fails with an assertion error (no response is returned); a
\* call on any other url is not checked and ends with whatever the real
\* session returned or raised, also when its timeout is not the required one.
C1_TimeoutCheckedOnMockedUrl ==
    /\ (OnTarget /\ last.kwargs["timeout"] # RequiredTimeout)
          => last.result = Raise(AssertionError)
    /\ (OffTarget /\ pc = "idle")
          => (last.result \in RealResults(variant) /\ last.result = Last(realLog))

C1_Witness ==
    /\ OnTarget
    /\ last.kwargs["timeout"] # RequiredTimeout
    /\ last.result = Raise(AssertionError)
    /\ Len(requestLog) = 1
    /\ requestLog[1].kwargs["timeout"] # RequiredTimeout

\* C2: with the async interceptor configured for POST (any casing), a call
\* on the mocked url whose data option differs from {data: calldata,
\* sender: sender} fails with an assertion error.
C2_AsyncPostBodyChecked ==
    (variant = "async" /\ ConfiguredPost /\ OnTarget
       /\ "data" \in DOMAIN last.kwargs /\ last.kwargs["data"] # ExpectedBody)
        => last.result = Raise(AssertionError)

\* C3: with the sync interceptor, a call on the mocked url with timeout 10:
\* configured for POST (any casing) it fails with an assertion error when
\* the data option differs from the expected body and returns a
\* MockedResponse when it equals it; configured for GET it returns a
\* MockedResponse whatever the data option is, or without one.
C3_SyncPostBodyChecked ==
    (variant = "sync" /\ OnTarget /\ last.kwargs["timeout"] = RequiredTimeout)
        => /\ (ConfiguredPost /\ "data" \in DOMAIN last.kwargs)
                 => IF last.kwargs["data"] # ExpectedBody
                    THEN last.result = Raise(AssertionError)
                    ELSE last.result = Return(SyntheticFor("sync"))
           /\ ~ConfiguredPost => last.result = Return(SyntheticFor("sync"))

C3_Witness ==
    /\ variant = "sync"
    /\ cfg.http_method = post
    /\ OnTarget
    /\ last.kwargs["timeout"] = RequiredTimeout
    /\ last.kwargs["data"] # ExpectedBody
    /\ last.result = Raise(AssertionError)

\* C4: a completed call on a url other than the mocked one looked the
\* session up for that url, called session.request exactly once with the
\* configured method in upper case, the same url and the caller's options,
\* and ended with exactly what that request returned or raised.
C4_PassThrough ==
    (OffTarget /\ pc = "idle")
        => /\ Len(factoryLog) = nForwarded
           /\ Len(requestLog) = nForwarded
           /\ Len(realLog) = nForwarded
           /\ Last(factoryLog) = last.url
           /\ Last(requestLog).method \in {GET, POST}
           /\ Lower(Last(requestLog).method) = Lower(cfg.http_method)
           /\ Last(requestLog).url = last.url
           /\ Last(requestLog).kwargs = last.kwargs
           /\ last.result = Last(realLog)

C4_Witness ==
    /\ OffTarget
    /\ pc = "idle"
    /\ cfg.http_method = post
    /\ last.result.kind = "raise"
    /\ nForwarded = 2

\* C5: no session-factory lookup and no session.request call is ever made
\* for the mocked url; a call on it ends with a synthetic response or with
\* an assertion error.
C5_TargetNeverForwarded ==
    /\ \A i \in DOMAIN factoryLog : factoryLog[i] # cfg.mocked_request_url
    /\ \A i \in DOMAIN requestLog : requestLog[i].url # cfg.mocked_request_url
    /\ OnTarget => last.result \in {Return(SyntheticFor(variant)), Raise(AssertionError)}

C5_Witness ==
    /\ OnTarget
    /\ nCalls >= 2
    /\ Len(requestLog) = nCalls - 1
    /\ last.result.kind = "return"

\* C9: the synthetic response reports the configured status code, json()
\* returns the one-entry mapping {json_data_field: mocked_json_data} on
\* every call, and raise_for_status() fails on every call.
C9_SyntheticResponse ==
    /\ IsSynthetic(heldResp) => heldResp = SyntheticFor(variant)
    /\ (OnTarget /\ last.result.kind = "return") => last.result.value = SyntheticFor(variant)
    /\ respOut.op = "json"
          => /\ respOut.kind = "return"
             /\ DOMAIN respOut.value = {cfg.json_data_field}
             /\ respOut.value[cfg.json_data_field] = cfg.mocked_json_data
    /\ respOut.op = "raise_for_status" => respOut.kind = "raise"

C9_Witness ==
    /\ cfg.json_data_field = "result"
    /\ respOut.op = "json"
    /\ respOut.value = ("result" :> "0xaabb")
    /\ nRespOps >= 2
    /\ nForwarded >= 1

\* ------------------------------------------------------------------------
\* Properties of WebSocketMessageStreamMock (StreamSpec)
\* ------------------------------------------------------------------------

IsAnext(e) == e.op = "__anext__"
AnextCalls == SelectSeq(trace, IsAnext)
GivenMessages == initMessages.items

\* C6: without an injected failure the k-th __anext__ call returns the k-th
\* constructor message, and every call after the last message signals
\* StopAsyncIteration, whatever send and close calls are interleaved.
C6_FifoThenEnded ==
    initException = None
        => /\ \A k \in DOMAIN AnextCalls :
                AnextCalls[k].out = IF k <= Len(GivenMessages)
                                    THEN Return(GivenMessages[k])
                                    ELSE Raise("StopAsyncIteration")
           /\ \A k \in DOMAIN delivered : delivered[k] = GivenMessages[k]

C6_Witness ==
    /\ initException = None
    /\ Len(GivenMessages) = 2
    /\ GivenMessages[1] # GivenMessages[2]
    /\ Len(delivered) = 2
    /\ Len(AnextCalls) >= 4
    /\ AnextCalls[3].out = Raise("StopAsyncIteration")
    /\ AnextCalls[4].out = Raise("StopAsyncIteration")

\* C7: with an injected failure E every __anext__ call raises E, nothing is
\* delivered or removed from the queue, and the failure stays set.
C7_InjectedFailure ==
    initException # None
        => /\ \A k \in DOMAIN AnextCalls : AnextCalls[k].out = Raise(initException)
           /\ delivered = <<>>
           /\ messages = GivenMessages
           /\ raise_exception = initException

C7_Witness ==
    /\ initException # None
    /\ Len(messages) = 2
    /\ Len(AnextCalls) >= 2

\* C8: send and close complete without error and change nothing: closed is
\* False in every state, the failure is the constructor's, the queue is the
\* constructor's messages less the delivered ones, and nothing passed to
\* send is ever delivered.
C8_SendCloseNoOps ==
    /\ closed = FALSE
    /\ raise_exception = initException
    /\ Len(delivered) <= Len(GivenMessages)
    /\ messages = SubSeq(GivenMessages, Len(delivered) + 1, Len(GivenMessages))
    /\ \A i \in DOMAIN trace :
          trace[i].op \in {"send", "close"} => trace[i].out = Return(None)
    /\ \A k \in DOMAIN delivered : delivered[k] = GivenMessages[k]
    /\ \A k \in DOMAIN delivered : delivered[k] # "z"

C8_Witness ==
    /\ Len(trace) >= 4
    /\ trace[1].op = "send" /\ trace[1].arg = "z"
    /\ trace[2].op = "close"
    /\ trace[3].op = "__anext__" /\ trace[3].out.kind = "return"
    /\ trace[4].op = "__anext__" /\ trace[4].out = Raise("StopAsyncIteration")

\* ------------------------------------------------------------------------
\* Properties of assert_contains_log (LogSpec)
\* ------------------------------------------------------------------------

\* the bytes each transaction-hash spelling of the model denotes
BytesOf(h) ==
    CASE h = <<"0", "x", "a", "b">> -> <<171>>
      [] h = <<"0", "x", "A", "B">> -> <<171>>
      [] h = <<"a", "b">> -> <<171>>
      [] h = <<"0", "x", "c", "d">> -> <<205>>

\* C10: assert_contains_log passes exactly when result has one element whose
\* blockNumber and blockHash are the block's, whose logIndex and
\* transactionIndex are 0, whose address is the emitter's up to letter case
\* and whose transactionHash is the bytes txn_hash denotes; it leaves its
\* arguments as they were.
C10_PassesIffSingleMatchingLog ==
    verdict # "not_called"
        => /\ verdict \in {"pass", "AssertionError"}
           /\ verdict = "pass"
                <=> /\ Len(result) = 1
                    /\ result[1].blockNumber = block_with_txn_with_log.number
                    /\ result[1].blockHash = block_with_txn_with_log.hash
                    /\ result[1].logIndex = 0
                    /\ result[1].transactionIndex = 0
                    /\ Lower(result[1].address) = Lower(emitter_contract_address)
                    /\ result[1].transactionHash = BytesOf(txn_hash_with_log)
           /\ args0 = <<result, block_with_txn_with_log, emitter_contract_address,
                        txn_hash_with_log>>

C10_Witness ==
    /\ verdict = "pass"
    /\ result[1].address # emitter_contract_address
    /\ txn_hash_with_log = <<"0", "x", "A", "B">>

====
